---- MODULE Spec2Model ----
(***************************************************************************)
(* Invoice Hawk: the invoice lifecycle kept in the database (invoices and  *)
(* audit_log tables) as driven by the Lambda handlers, the CLI pipeline    *)
(* (process_file) and the Slack callback endpoint (slack_actions); the     *)
(* Slack request authenticator (_verify_slack_request); and the NetSuite   *)
(* client's retry loop (NetSuiteClient._request).                          *)
(*                                                                         *)
(* Four specifications share the variables:                                *)
(*   Spec         the lifecycle: handlers, process_file, slack_actions     *)
(*   SpecVerify   _verify_slack_request applied to drawn inputs            *)
(*   SpecRequest  NetSuiteClient._request, one action per loop iteration   *)
(*   SpecMatch    the matching routines applied to drawn lines              *)
(* Numbers that are floats in the program are integers here: seconds for   *)
(* times, hundredths for quantities and prices.                            *)
(***************************************************************************)
EXTENDS Integers, Sequences, FiniteSets, TLC

VARIABLES
    invoices,    \* table invoices: row id = index; [invoice_number, status, line_items]
    audit_log,   \* table audit_log, in insertion order
    nstatus,     \* per invoice id: number of committed units of work that set its status
    pf,          \* process_file: position and local variables of the running call
    outcome,     \* what the last handler call answered: [op, result], and for a
                 \* callback what _verify_slack_request gave (verified)
    auth,        \* SpecVerify: the drawn inputs and the value _verify_slack_request gave
    client,      \* SpecRequest: the NetSuiteClient and its running _request call
    match,       \* SpecMatch: the lines drawn and what a matching routine returned
    ocr          \* SpecProvider: the environment drawn and what get_provider gave

vars == <<invoices, audit_log, nstatus, pf, outcome, auth, client, match, ocr>>

----------------------------------------------------------------------------
(* Bounds of the model *)

MaxAudit == 2          \* rows the audit_log table may hold
MaxRetriesBound == 2   \* largest max_retries a client is constructed with
MaxBackoff == 1        \* largest backoff_seconds a client is constructed with
MaxLines == 2          \* longest list of lines given to a matching routine
MaxVerifications == 2  \* calls of the authenticator on one request
MaxCalls == 2          \* calls made on one NetSuiteClient

(* Program constants *)

FreshnessWindow == 300   \* 60 * 5 seconds
PRICE_TOLERANCE == 2     \* 0.02, in hundredths
QTY_TOLERANCE == 1       \* 0.01, in hundredths
CLI_PRICE_TOLERANCE == 2 \* cli.py's own PRICE_TOLERANCE
CLI_QTY_TOLERANCE == 1   \* cli.py's own QTY_TOLERANCE
RateLimitStatus == 429
ErrorStatus == 400

----------------------------------------------------------------------------
(* Slack request authenticator *)

Nows == {1000}    \* the values time.time() gives while a request is verified

Secrets == {"s1", "s2"}

InvoiceNumbers == {"INV-1", "INV-2"}    \* at most one row per number

\* The raw bodies a request carries. utf8 = FALSE: bytes that do not decode.
\* json_ok = FALSE: neither a form with a payload parameter nor JSON.
\* value: the button's value, absent (or empty), text that is no integer,
\* or the decimal text of n.
Value(n) == [kind |-> "int", n |-> n]
NoValue == [kind |-> "none", n |-> 0]
TextValue == [kind |-> "text", n |-> 0]

Payload(a, v) == [utf8 |-> TRUE, json_ok |-> TRUE, has_actions |-> TRUE,
                  action_id |-> a, value |-> v]

Bodies ==
    { Payload(a, Value(n)) : a \in {"approve_invoice", "reject_invoice", "other"},
                             n \in 1..Cardinality(InvoiceNumbers) }
    \cup { Payload("approve_invoice", Value(0)),
           Payload("approve_invoice", NoValue),
           Payload("approve_invoice", TextValue),
           [utf8 |-> TRUE, json_ok |-> TRUE, has_actions |-> FALSE,
            action_id |-> "", value |-> NoValue],
           [utf8 |-> TRUE, json_ok |-> FALSE, has_actions |-> FALSE,
            action_id |-> "", value |-> NoValue],
           [utf8 |-> FALSE, json_ok |-> FALSE, has_actions |-> FALSE,
            action_id |-> "", value |-> NoValue] }

\* The X-Slack-Request-Timestamp header: absent, empty, text float() refuses,
\* "nan", or the decimal text of an integer.
Ts(n) == [kind |-> "num", val |-> n]
TsValues == UNION { { now - FreshnessWindow - 1, now - FreshnessWindow, now,
                        now + FreshnessWindow, now + FreshnessWindow + 1 } : now \in Nows }
NumericTimestamps == { Ts(n) : n \in TsValues }
Timestamps ==
    NumericTimestamps
    \cup { [kind |-> k, val |-> 0] : k \in {"none", "empty", "text", "nan"} }

\* HMAC-SHA256 taken as collision-free: the digest is the pair it was
\* computed from.
Hmac(secret, basestring) == <<secret, basestring>>
Basestring_NoBody(timestamp, body) == <<"v0", timestamp>>
Basestring(timestamp, body) == <<"v0", timestamp, body>>
Sign(secret, timestamp, body) ==
    [kind |-> "sig", prefix |-> "v0=", mac |-> Hmac(secret, Basestring(timestamp, body))]

\* The X-Slack-Signature header: absent, empty, a well-formed signature of
\* some secret, timestamp and body, or one with a digest of nothing.
NoSignature == [kind |-> "none", prefix |-> "", mac |-> <<>>]
EmptySignature == [kind |-> "empty", prefix |-> "", mac |-> <<>>]
BadSignature == [kind |-> "sig", prefix |-> "v0=", mac |-> <<"deadbeef">>]
Abs(x) == IF x < 0 THEN -x ELSE x

\* abs(time.time() - float(timestamp)) > 60 * 5
IsStale_PastOnly(now, val) == now - val > FreshnessWindow
IsStale(now, val) == Abs(now - val) > FreshnessWindow

_verify_slack_request_Once(timestamp, signature, body, signing_secret, now) ==
    IF signature = Sign(signing_secret, timestamp, body) /\ auth.results = <<>>
    THEN "True"
    ELSE "False"

\* _verify_slack_request: "True" or "False", or the exception it raises.
\* A "nan" timestamp passes float() and is never more than the window away.
_verify_slack_request(timestamp, signature, body, signing_secret, now) ==
    IF timestamp.kind \in {"none", "empty"} \/ signature.kind \in {"none", "empty"}
    THEN "False"
    ELSE IF timestamp.kind = "text" THEN "ValueError"
    ELSE IF timestamp.kind = "num" /\ IsStale(now, timestamp.val) THEN "False"
    ELSE IF ~body.utf8 THEN "UnicodeDecodeError"
    ELSE IF signature = Sign(signing_secret, timestamp, body) THEN "True"
    ELSE "False"

----------------------------------------------------------------------------
(* Two-way match *)

Line(q, p) == [quantity |-> q, price |-> p]

\* The thresholds of one invoice line, scaled by 100:
\*   qty_tol = QTY_TOLERANCE * invoice_li.quantity if invoice_li.quantity else 0
\*   price_tol = PRICE_TOLERANCE * float(invoice_li.price) if invoice_li.price else 0
qty_tol(invoice_li) ==
    IF invoice_li.quantity # 0 THEN QTY_TOLERANCE * invoice_li.quantity ELSE 0
price_tol(invoice_li) ==
    IF invoice_li.price # 0 THEN PRICE_TOLERANCE * invoice_li.price ELSE 0

\* A purchase-order line without the key counts as 0: po_li.get("quantity", 0).
PoGet(po_li, key) == IF key \in DOMAIN po_li THEN po_li[key] ELSE 0

\*   qty_ok = abs(invoice_li.quantity - po_qty) <= qty_tol
qty_ok(invoice_li, po_li) ==
    100 * Abs(invoice_li.quantity - PoGet(po_li, "quantity")) <= qty_tol(invoice_li)

\*   price_ok = abs(float(invoice_li.price) - po_price) <= price_tol
price_ok_PoBased(invoice_li, po_li) ==
    100 * Abs(invoice_li.price - PoGet(po_li, "price"))
        <= PRICE_TOLERANCE * PoGet(po_li, "price")
price_ok(invoice_li, po_li) ==
    100 * Abs(invoice_li.price - PoGet(po_li, "price")) <= price_tol(invoice_li)

\*   if not (qty_ok and price_ok): return False
LineOk(inv_li, po_li) == qty_ok(inv_li, po_li) /\ price_ok(inv_li, po_li)

\* The loop over enumerate(invoice_lines), from index i on. The variant reads
\* the two lists in step and stops at the end of the shorter one.
RECURSIVE CompareFrom_Zip(_, _, _)
CompareFrom_Zip(i, invoice_lines, po_lines) ==
    IF i > Len(invoice_lines) \/ i > Len(po_lines) THEN TRUE
    ELSE IF ~LineOk(invoice_lines[i], po_lines[i]) THEN FALSE
    ELSE CompareFrom_Zip(i + 1, invoice_lines, po_lines)

RECURSIVE CompareFrom(_, _, _)
CompareFrom(i, invoice_lines, po_lines) ==
    IF i > Len(invoice_lines) THEN TRUE
    ELSE IF i > Len(po_lines) THEN FALSE
    ELSE IF ~LineOk(invoice_lines[i], po_lines[i]) THEN FALSE
    ELSE CompareFrom(i + 1, invoice_lines, po_lines)

\* po_lookup/main.py
_compare_lines(invoice_lines, po_lines) == CompareFrom(1, invoice_lines, po_lines)

\* cli.py, with its own constants: the loop over enumerate(invoice_lines) from
\* index i on; list(po_lines)[i] raising IndexError is the missing line.
\*   qty_tol = QTY_TOLERANCE * inv_li.quantity if inv_li.quantity else 0
\*   price_tol = PRICE_TOLERANCE * float(inv_li.price) if inv_li.price else 0
\*   qty_ok = abs(inv_li.quantity - po_li.get("quantity", 0)) <= qty_tol
\*   price_ok = abs(float(inv_li.price) - po_li.get("price", 0)) <= price_tol
\* The variant takes the IndexError for the end of the loop.
RECURSIVE CompareLinesFrom_IndexErrorEnds(_, _, _)
CompareLinesFrom_IndexErrorEnds(i, invoice_lines, po_lines) ==
    IF i > Len(invoice_lines) \/ i > Len(po_lines) THEN TRUE
    ELSE /\ LineOk(invoice_lines[i], po_lines[i])
         /\ CompareLinesFrom_IndexErrorEnds(i + 1, invoice_lines, po_lines)

RECURSIVE CompareLinesFrom(_, _, _)
CompareLinesFrom(i, invoice_lines, po_lines) ==
    IF i > Len(invoice_lines) THEN TRUE
    ELSE IF i > Len(po_lines) THEN FALSE
    ELSE LET inv_li == invoice_lines[i]
             po_li == po_lines[i]
             cli_qty_tol ==
                 IF inv_li.quantity # 0 THEN CLI_QTY_TOLERANCE * inv_li.quantity ELSE 0
             cli_price_tol ==
                 IF inv_li.price # 0 THEN CLI_PRICE_TOLERANCE * inv_li.price ELSE 0
             cli_qty_ok ==
                 100 * Abs(inv_li.quantity - PoGet(po_li, "quantity")) <= cli_qty_tol
             cli_price_ok ==
                 100 * Abs(inv_li.price - PoGet(po_li, "price")) <= cli_price_tol
         IN IF ~(cli_qty_ok /\ cli_price_ok) THEN FALSE
            ELSE CompareLinesFrom(i + 1, invoice_lines, po_lines)

compare_lines(invoice_lines, po_lines) == CompareLinesFrom(1, invoice_lines, po_lines)

\* app/match_po.py: the purchase order is the stub the function builds,
\* {"qty": 10, "unit_price": 99.5}, and only payload["lines"][0] is compared.
\*   price_ok = abs(inv["unit_price"]-pol["unit_price"]) <= pol["unit_price"]*price_tol
\*   qty_ok = abs(inv["qty"]-pol["qty"]) <= max(1, pol["qty"]*qty_tol)
StubPO == <<Line(1000, 9950)>>
Max(x, y) == IF x >= y THEN x ELSE y
two_way_match(payload_lines) ==
    IF payload_lines = <<>> THEN "IndexError"
    ELSE LET inv == payload_lines[1]
             pol == StubPO[1]
             two_way_price_ok ==
                 100 * Abs(inv.price - pol.price) <= PRICE_TOLERANCE * pol.price
             two_way_qty_ok ==
                 100 * Abs(inv.quantity - pol.quantity)
                     <= Max(100 * 100, QTY_TOLERANCE * pol.quantity)
         IN IF two_way_price_ok /\ two_way_qty_ok THEN "True" ELSE "False"

----------------------------------------------------------------------------
(* The lifecycle: inputs *)

LineLists == { <<Line(500, 5000), Line(1000, 10000)>> }

\* What extract_fields returns for a document: complete ("none" lacking), or
\* lacking one of the fields the invoices table requires. Of these the vendor
\* is tried for the four persist_invoice reads without a default, and the total.
RequiredFields ==
    {"vendor", "invoice_number", "invoice_date", "total", "purchase_order_number"}
Lackings == {"none", "vendor", "total"}
Docs == [invoice_number : InvoiceNumbers, line_items : LineLists, lacking : Lackings]

\* What get_purchase_order does: returns the order's lines, or raises.
POLines == { <<>>, <<Line(1000, 9950)>>, <<Line(500, 5000), Line(1000, 9950)>> }
POResults == [ok : {TRUE}, lines : POLines] \cup { [ok |-> FALSE, lines |-> <<>>] }

\* event.get("invoice_id"): 0 stands for an absent (or falsy) id.
EventIds == 0..Cardinality(InvoiceNumbers)

Decisions == {"approve", "reject", "other"}

\* The callbacks delivered to the endpoint. Well-formed ones: every body, signed
\* with the configured secret at the time of delivery. Others, all carrying one
\* approving body: every timestamp header with the signature made for it, and a
\* fresh timestamp with no signature, an empty one, a wrong digest, the digest
\* of another secret, and the digest of another body.
ConfiguredSecret == "s1"
ApproveFirst == Payload("approve_invoice", Value(1))
RejectFirst == Payload("reject_invoice", Value(1))
Request(t, sg, b) == [timestamp |-> t, signature |-> sg, body |-> b]
WellFormedRequests ==
    { Request(Ts(now), Sign(ConfiguredSecret, Ts(now), b), b) : now \in Nows, b \in Bodies }
OtherRequests ==
    { Request(t, Sign(ConfiguredSecret, t, ApproveFirst), ApproveFirst) : t \in Timestamps }
    \cup UNION { { Request(Ts(now), sg, ApproveFirst) :
                     sg \in { NoSignature, EmptySignature, BadSignature,
                              Sign("s2", Ts(now), ApproveFirst),
                              Sign(ConfiguredSecret, Ts(now), RejectFirst) } } : now \in Nows }
Requests == WellFormedRequests \cup OtherRequests

\* The endpoint's environment: SLACK_SIGNING_SECRET ("" when not set), whether
\* DATABASE_URL is set, whether the message sent after the commit goes through.
EnvReady == [signing_secret |-> ConfiguredSecret, db |-> TRUE, followup |-> TRUE]
Envs ==
    { EnvReady,
      [signing_secret |-> "", db |-> TRUE, followup |-> TRUE],
      [signing_secret |-> ConfiguredSecret, db |-> FALSE, followup |-> TRUE],
      [signing_secret |-> ConfiguredSecret, db |-> TRUE, followup |-> FALSE] }

\* The deliveries: every callback to the endpoint when all is configured, and
\* under each other environment a well-formed callback and one with a wrong digest.
Deliveries ==
    (Requests \X { EnvReady })
    \cup UNION { { <<Request(Ts(now), Sign(ConfiguredSecret, Ts(now), ApproveFirst),
                             ApproveFirst), env>>,
                   <<Request(Ts(now), BadSignature, ApproveFirst), env>> } :
                 now \in Nows, env \in Envs }

\* What a call answered. For a callback also what the endpoint computed on the
\* way: what _verify_slack_request gave, and the invoice id and the action id
\* parsed from the payload (0 and "" before the payload is parsed). For an
\* ingestion also the field its extraction result lacked.
Answer(op, result) ==
    [op |-> op, result |-> result, verified |-> "n/a", invoice_id |-> 0,
     action_id |-> "", lacking |-> ""]
CallbackAnswer(result, verified, invoice_id, action_id) ==
    [Answer("slack_actions", result) EXCEPT !.verified = verified,
                                            !.invoice_id = invoice_id,
                                            !.action_id = action_id]
IngestAnswer(op, result, doc) == [Answer(op, result) EXCEPT !.lacking = doc.lacking]
\* For a Lambda event that named an invoice: the event's invoice_id, and its
\* decision in place of the action id ("" when the event has none).
EventAnswer(op, result, invoice_id, decision) ==
    [Answer(op, result) EXCEPT !.invoice_id = invoice_id, !.action_id = decision]
EventCommitted(op, result, written, invoice_id, decision) ==
    EventAnswer(op, IF written THEN result ELSE "SQLAlchemyError", invoice_id, decision)

Exists(invoice_id) == invoice_id \in 1..Len(invoices)

\* invoice_number = Column(String, nullable=False, unique=True)
NumberTaken_Never(number) == FALSE
NumberTaken(number) == \E i \in 1..Len(invoices) : invoices[i].invoice_number = number

\* invoice.status = new_status; session.add(AuditLog(invoice=invoice, ...));
\* session.commit(). The variant keeps one row per invoice, replacing the last.
SetStatusAndLog_Overwrite(invoice_id, new_status, event_type, details) ==
    /\ audit_log # <<>>
    /\ invoices' = [invoices EXCEPT ![invoice_id].status = new_status]
    /\ audit_log' = [audit_log EXCEPT ![Len(audit_log)] =
                         [invoice_id |-> invoice_id, event_type |-> event_type,
                          details |-> details]]
    /\ nstatus' = [nstatus EXCEPT ![invoice_id] = @ + 1]
SetStatusAndLog(invoice_id, new_status, event_type, details) ==
    /\ Len(audit_log) < MaxAudit
    /\ invoices' = [invoices EXCEPT ![invoice_id].status = new_status]
    /\ audit_log' = Append(audit_log, [invoice_id |-> invoice_id,
                                       event_type |-> event_type,
                                       details |-> details])
    /\ nstatus' = [nstatus EXCEPT ![invoice_id] = @ + 1]

\* The same unit of work as the last one of a call that is under way: it is
\* let through with the log at its bound, so that the call ends.
SetStatusAndLogClosing(invoice_id, new_status, event_type, details) ==
    /\ Len(audit_log) <= MaxAudit
    /\ invoices' = [invoices EXCEPT ![invoice_id].status = new_status]
    /\ audit_log' = Append(audit_log, [invoice_id |-> invoice_id,
                                       event_type |-> event_type,
                                       details |-> details])
    /\ nstatus' = [nstatus EXCEPT ![invoice_id] = @ + 1]

NoCommit == UNCHANGED <<invoices, audit_log, nstatus>>

\* session.commit() of a unit of work that set a status and added an AuditLog:
\* the UPDATE and the INSERT are flushed in one transaction. written: whether
\* the INSERT into audit_log went through; when it did not, commit raises and
\* the transaction is rolled back.
Commit_StatusFirst(invoice_id, new_status, event_type, details, written) ==
    IF written THEN SetStatusAndLog(invoice_id, new_status, event_type, details)
    ELSE /\ invoices' = [invoices EXCEPT ![invoice_id].status = new_status]
         /\ UNCHANGED <<audit_log, nstatus>>
Commit(invoice_id, new_status, event_type, details, written) ==
    IF written THEN SetStatusAndLog(invoice_id, new_status, event_type, details)
    ELSE NoCommit

\* What the call answers after its commit.
Committed(op, result, written) ==
    Answer(op, IF written THEN result ELSE "SQLAlchemyError")

\* invoice.status = "matched" if within_tolerance else "flagged"
MatchStatus_Matched(within_tolerance) == "matched"
MatchStatus(within_tolerance) == IF within_tolerance THEN "matched" ELSE "flagged"

----------------------------------------------------------------------------
(* Lambda handlers: each call is one unit of work with one commit *)

\* ocr_extract: _persist_invoice. data["..."] raises KeyError for a field the
\* extraction result lacks, before anything is added to the session. The
\* status column takes its default; the AuditLog carries what was extracted
\* (details=data).
ocr_extract_handler(doc, written) ==
    /\ Len(audit_log) < MaxAudit
    /\ IF doc.lacking # "none"
       THEN /\ NoCommit
            /\ outcome' = IngestAnswer("ocr_extract", "KeyError", doc)
       ELSE IF NumberTaken(doc.invoice_number)
       THEN /\ NoCommit
            /\ outcome' = IngestAnswer("ocr_extract", "IntegrityError", doc)
       ELSE IF ~written
       THEN /\ NoCommit
            /\ outcome' = IngestAnswer("ocr_extract", "SQLAlchemyError", doc)
       ELSE /\ invoices' = Append(invoices, [invoice_number |-> doc.invoice_number,
                                             status |-> "pending",
                                             line_items |-> doc.line_items])
            /\ audit_log' = Append(audit_log, [invoice_id |-> Len(invoices) + 1,
                                               event_type |-> "extracted",
                                               details |-> doc])
            /\ nstatus' = Append(nstatus, 1)
            /\ outcome' = IngestAnswer("ocr_extract", "ok", doc)
    /\ UNCHANGED <<pf, auth, client, match, ocr>>

po_lookup_handler(invoice_id, po, written) ==
    /\ IF invoice_id = 0 \/ ~Exists(invoice_id)
       THEN NoCommit /\ outcome' = Answer("po_lookup", "ValueError")
       ELSE IF ~po.ok
       THEN NoCommit /\ outcome' = EventAnswer("po_lookup", "NetSuiteError", invoice_id, "")
       ELSE LET within_tolerance ==
                    _compare_lines(invoices[invoice_id].line_items, po.lines)
            IN /\ Commit(invoice_id, MatchStatus(within_tolerance), "po_check",
                         [po_data |-> po.lines, within_tolerance |-> within_tolerance],
                         written)
               /\ outcome' = EventCommitted("po_lookup", "ok", written, invoice_id, "")
    /\ UNCHANGED <<pf, auth, client, match, ocr>>

\* slack_notification: the message is sent first; raise_for_status raises when
\* Slack refuses it. The variant sets the status before sending.
slack_notification_handler_StatusFirst(invoice_id, webhook_set, sent, written) ==
    /\ IF invoice_id = 0 \/ ~Exists(invoice_id)
       THEN NoCommit /\ outcome' = Answer("slack_notification", "ValueError")
       ELSE IF ~webhook_set
       THEN NoCommit /\ outcome' = Answer("slack_notification", "RuntimeError")
       ELSE /\ Commit(invoice_id, "awaiting_approval", "slack_notification",
                      [sent |-> TRUE], written)
            /\ outcome' = IF sent THEN Committed("slack_notification", "ok", written)
                          ELSE Answer("slack_notification", "HTTPError")
    /\ UNCHANGED <<pf, auth, client, match, ocr>>
slack_notification_handler(invoice_id, webhook_set, sent, written) ==
    /\ IF invoice_id = 0 \/ ~Exists(invoice_id)
       THEN NoCommit /\ outcome' = Answer("slack_notification", "ValueError")
       ELSE IF ~webhook_set
       THEN NoCommit /\ outcome' = Answer("slack_notification", "RuntimeError")
       ELSE IF ~sent
       THEN NoCommit /\ outcome' = Answer("slack_notification", "HTTPError")
       ELSE /\ Commit(invoice_id, "awaiting_approval", "slack_notification",
                      [sent |-> TRUE], written)
            /\ outcome' = Committed("slack_notification", "ok", written)
    /\ UNCHANGED <<pf, auth, client, match, ocr>>

\* invoice_post: post_invoice is called for decision approve only, before the
\* status is set; posted: whether it returned. The variant sets the status
\* before it posts.
invoice_post_handler_StatusFirst(invoice_id, decision, posted, written) ==
    /\ IF invoice_id = 0 \/ decision \notin {"approve", "reject"} \/ ~Exists(invoice_id)
       THEN NoCommit /\ outcome' = Answer("invoice_post", "ValueError")
       ELSE /\ Commit(invoice_id,
                      IF decision = "approve" THEN "approved" ELSE "rejected",
                      "invoice_post", [decision |-> decision], written)
            /\ outcome' = IF decision = "approve" /\ ~posted
                          THEN EventAnswer("invoice_post", "NetSuiteError", invoice_id,
                                           decision)
                          ELSE EventCommitted("invoice_post", "ok", written, invoice_id,
                                              decision)
    /\ UNCHANGED <<pf, auth, client, match, ocr>>
invoice_post_handler(invoice_id, decision, posted, written) ==
    /\ IF invoice_id = 0 \/ decision \notin {"approve", "reject"} \/ ~Exists(invoice_id)
       THEN NoCommit /\ outcome' = Answer("invoice_post", "ValueError")
       ELSE IF decision = "approve" /\ ~posted
       THEN NoCommit /\ outcome' = EventAnswer("invoice_post", "NetSuiteError", invoice_id,
                                               decision)
       ELSE /\ Commit(invoice_id,
                      IF decision = "approve" THEN "approved" ELSE "rejected",
                      "invoice_post",
                      IF decision = "approve"
                      THEN [decision |-> decision, netsuite_response |-> "NS-INV-42"]
                      ELSE [decision |-> decision],
                      written)
            /\ outcome' = EventCommitted("invoice_post", "ok", written, invoice_id, decision)
    /\ UNCHANGED <<pf, auth, client, match, ocr>>

----------------------------------------------------------------------------
(* The Slack callback endpoint *)

\* if not _verify_slack_request(request, body, signing_secret): raise 401
Refused_Never(verified) == FALSE
Refused(verified) == verified # "True"

\* new_status = "approved" if action_id == "approve_invoice" else "rejected"
NewStatus(action_id) == IF action_id = "approve_invoice" THEN "approved" ELSE "rejected"

\* An exception raised while verifying, or by the commit, leaves the endpoint
\* as a server error.
slack_actions(request, env, now, written) ==
    LET verified == _verify_slack_request(request.timestamp, request.signature,
                                          request.body, env.signing_secret, now)
        body == request.body
    IN
    /\ IF env.signing_secret = ""
       THEN NoCommit /\ outcome' = Answer("slack_actions", "500")
       ELSE IF verified \notin {"True", "False"}
       THEN NoCommit /\ outcome' = CallbackAnswer("500", verified, 0, "")
       ELSE IF Refused(verified)
       THEN NoCommit /\ outcome' = CallbackAnswer("401", verified, 0, "")
       ELSE IF ~body.json_ok \/ ~body.has_actions \/ body.value.kind # "int"
       THEN NoCommit /\ outcome' = CallbackAnswer("400", verified, 0, "")
       ELSE IF ~env.db
       THEN NoCommit /\ outcome' = CallbackAnswer("500", verified, body.value.n,
                                                    body.action_id)
       ELSE IF ~Exists(body.value.n)
       THEN NoCommit /\ outcome' = CallbackAnswer("404", verified, body.value.n,
                                                    body.action_id)
       ELSE /\ Commit(body.value.n, NewStatus(body.action_id),
                      "slack_action", [action |-> body.action_id], written)
            /\ outcome' = CallbackAnswer(IF ~written THEN "SQLAlchemyError"
                                         ELSE IF env.followup THEN "200" ELSE "500",
                                         verified, body.value.n, body.action_id)
    /\ UNCHANGED <<pf, auth, client, match, ocr>>

----------------------------------------------------------------------------
(* process_file: three commits, other requests may be served in between *)

NoDoc == [invoice_number |-> "", line_items |-> <<>>]
PfIdle == [pc |-> "idle", invoice |-> 0, extracted |-> NoDoc]

\* extracted.get(...) gives None for a field the extraction result lacks, and
\* the flush then fails on the NOT NULL column; but extracted.get("total", 0.0)
\* gives 0.0 for a lacking total.
NullColumn(doc) == doc.lacking \in RequiredFields \ {"total"}

\* What process_file reads of extracted after persisting.
Extracted(doc) == [invoice_number |-> doc.invoice_number, line_items |-> doc.line_items]

\* extracted = provider.extract_fields(content); persist_invoice: the row is
\* added with status "NEW"; no LineItem and no AuditLog is added.
process_file_persist(doc) ==
    /\ pf.pc = "idle"
    /\ IF NullColumn(doc) \/ NumberTaken(doc.invoice_number)
       THEN /\ UNCHANGED <<invoices, nstatus, pf>>
            /\ outcome' = IngestAnswer("process_file", "IntegrityError", doc)
       ELSE /\ invoices' = Append(invoices, [invoice_number |-> doc.invoice_number,
                                             status |-> "NEW",
                                             line_items |-> <<>>])
            /\ nstatus' = Append(nstatus, 1)
            /\ pf' = [pc |-> "match", invoice |-> Len(invoices) + 1,
                      extracted |-> Extracted(doc)]
            /\ outcome' = IngestAnswer("process_file", "persisted", doc)
    /\ UNCHANGED <<audit_log, auth, client, match, ocr>>

\* An exception of get_purchase_order or of the commit ends process_file.
process_file_match(po, written) ==
    /\ pf.pc = "match"
    /\ IF ~po.ok
       THEN /\ NoCommit
            /\ pf' = PfIdle
            /\ outcome' = Answer("process_file", "NetSuiteError")
       ELSE LET within == compare_lines(invoices[pf.invoice].line_items, po.lines)
            IN /\ Commit(pf.invoice, MatchStatus(within), "po_check",
                         [po_data |-> po.lines, within_tolerance |-> within], written)
               /\ pf' = IF written THEN [pf EXCEPT !.pc = "notify"] ELSE PfIdle
               /\ outcome' = Committed("process_file", "checked", written)
    /\ UNCHANGED <<auth, client, match, ocr>>

\* if slack_webhook: ... send_slack_message(slack_webhook, text, ...), which
\* raises when the webhook answers with an error. The message is out when it
\* returns; nothing is assigned or committed yet.
process_file_notify(webhook_set, sent) ==
    /\ pf.pc = "notify"
    /\ NoCommit
    /\ IF ~webhook_set
       THEN pf' = PfIdle /\ outcome' = Answer("process_file", "no webhook")
       ELSE IF ~sent
       THEN pf' = PfIdle /\ outcome' = Answer("process_file", "HTTPError")
       ELSE pf' = [pf EXCEPT !.pc = "sent"] /\ outcome' = Answer("process_file", "sent")
    /\ UNCHANGED <<auth, client, match, ocr>>

\* invoice.status = "awaiting_approval"; session.add(AuditLog(...));
\* session.commit(): the UPDATE is issued whatever the row holds by now.
process_file_commit(written) ==
    /\ pf.pc = "sent"
    /\ IF written
       THEN SetStatusAndLogClosing(pf.invoice, "awaiting_approval", "slack_notification",
                                   [sent |-> TRUE])
       ELSE NoCommit
    /\ outcome' = Committed("process_file", "ok", written)
    /\ pf' = PfIdle
    /\ UNCHANGED <<auth, client, match, ocr>>

----------------------------------------------------------------------------
(* Specification of the lifecycle *)

AuthIdle == [pc |-> "idle"]
ClientIdle == [pc |-> "idle"]
MatchIdle == [pc |-> "idle"]
OcrIdle == [pc |-> "idle"]

Init ==
    /\ invoices = <<>>
    /\ audit_log = <<>>
    /\ nstatus = <<>>
    /\ pf = PfIdle
    /\ outcome = Answer("none", "none")
    /\ auth = AuthIdle
    /\ client = ClientIdle
    /\ match = MatchIdle
    /\ ocr = OcrIdle

Next ==
    \/ \E doc \in Docs, written \in BOOLEAN : ocr_extract_handler(doc, written)
    \/ \E id \in EventIds, po \in POResults, written \in BOOLEAN :
          po_lookup_handler(id, po, written)
    \/ \E id \in EventIds, w \in BOOLEAN, sent \in BOOLEAN, written \in BOOLEAN :
          slack_notification_handler(id, w, sent, written)
    \/ \E id \in EventIds, d \in Decisions, posted \in BOOLEAN, written \in BOOLEAN :
          invoice_post_handler(id, d, posted, written)
    \/ \E d \in Deliveries, now \in Nows, written \in BOOLEAN :
          slack_actions(d[1], d[2], now, written)
    \/ \E doc \in Docs : process_file_persist(doc)
    \/ \E po \in POResults, written \in BOOLEAN : process_file_match(po, written)
    \/ \E w \in BOOLEAN, sent \in BOOLEAN : process_file_notify(w, sent)
    \/ \E written \in BOOLEAN : process_file_commit(written)

Spec == Init /\ [][Next]_vars

----------------------------------------------------------------------------
(* Specification of the authenticator: _verify_slack_request on drawn inputs *)

ApproveSecond == Payload("approve_invoice", Value(2))
VerifyBodies == { ApproveFirst, ApproveSecond, RejectFirst } \cup { b \in Bodies : ~b.utf8 }

VerifySignatures ==
    { NoSignature, EmptySignature, BadSignature }
    \cup { Sign(s, t, b) : s \in Secrets, t \in Timestamps, b \in VerifyBodies }

LifecycleIdle ==
    /\ invoices = <<>>
    /\ audit_log = <<>>
    /\ nstatus = <<>>
    /\ pf = PfIdle
    /\ outcome = Answer("none", "none")

InitVerify ==
    /\ LifecycleIdle
    /\ ocr = OcrIdle
    /\ client = ClientIdle
    /\ match = MatchIdle
    /\ auth \in [pc : {"drawn"}, timestamp : Timestamps, signature : VerifySignatures,
                 body : VerifyBodies, signing_secret : Secrets, now : Nows,
                 result : {"none"}, results : {<<>>}]

\* One call of _verify_slack_request; results keeps what each call returned and
\* what time.time() read during it.
verify_call ==
    /\ auth.pc = "drawn"
    /\ LET result == _verify_slack_request(auth.timestamp, auth.signature, auth.body,
                                           auth.signing_secret, auth.now)
       IN auth' = [auth EXCEPT !.pc = "done",
                               !.result = result,
                               !.results = Append(@, [now |-> auth.now, result |-> result])]
    /\ UNCHANGED <<invoices, audit_log, nstatus, pf, outcome, client, match, ocr>>

\* The same headers, body and secret come to the authenticator again, elapsed
\* seconds later on the clock.
verify_again(elapsed) ==
    /\ auth.pc = "done"
    /\ Len(auth.results) < MaxVerifications
    /\ auth' = [auth EXCEPT !.pc = "drawn", !.now = @ + elapsed]
    /\ UNCHANGED <<invoices, audit_log, nstatus, pf, outcome, client, match, ocr>>

NextVerify ==
    \/ verify_call
    \/ \E elapsed \in 0..1 : verify_again(elapsed)

SpecVerify == InitVerify /\ [][NextVerify]_vars

----------------------------------------------------------------------------
(* Specification of NetSuiteClient._request *)

\* What one call of requests.request does: answers, or raises.
Response(status, json_ok) ==
    [kind |-> "response", status_code |-> status, json_ok |-> json_ok,
     text |-> "body", exc |-> "None"]
TransportError(exc) ==
    [kind |-> "exception", status_code |-> 0, json_ok |-> FALSE, text |-> "", exc |-> exc]

TransportOutcomes ==
    { Response(200, TRUE), Response(200, FALSE), Response(ErrorStatus, FALSE),
      Response(RateLimitStatus, FALSE), Response(500, FALSE),
      TransportError("ConnectionError"), TransportError("Timeout") }

\* What _request gives its caller.
\* data: what a canned answer of test mode carries.
NoData == [method |-> "", path |-> "", json |-> "", po_number |-> "", lines |-> <<>>,
           external_id |-> ""]
NoResult ==
    [kind |-> "none", type |-> "", what |-> "", status_code |-> 0, text |-> "",
     data |-> NoData]
\* resp.json(), or {"text": resp.text} when the body does not parse
Return(resp) ==
    [kind |-> "return", type |-> "dict",
     what |-> IF resp.json_ok THEN "json" ELSE "text",
     status_code |-> 0, text |-> resp.text, data |-> NoData]
\* {"status": "dry-run", "method": method, "path": path, "json": json or {}}
DryRun_Counted(method, path, json) ==
    [kind |-> "return", type |-> "dict", what |-> "dry-run", status_code |-> Len(client.log),
     text |-> "", data |-> NoData]
DryRun(method, path, json) ==
    [kind |-> "return", type |-> "dict", what |-> "dry-run", status_code |-> 0, text |-> "",
     data |-> [NoData EXCEPT !.method = method, !.path = path,
                             !.json = IF json = "None" THEN "{}" ELSE json]]
\* {"po_number": po_number, "lines": [{"sku": "KB-101", "quantity": 10, "price": 99.5}]}
CannedPurchaseOrder(po_number) ==
    [kind |-> "return", type |-> "dict", what |-> "purchase order", status_code |-> 0,
     text |-> "",
     data |-> [NoData EXCEPT !.po_number = po_number, !.lines = <<Line(1000, 9950)>>]]
\* {"external_id": "NS-INV-42"}
CannedInvoice(payload) ==
    [kind |-> "return", type |-> "dict", what |-> "posted invoice", status_code |-> 0,
     text |-> "", data |-> [NoData EXCEPT !.external_id = "NS-INV-42"]]
RaiseRateLimited ==
    [kind |-> "raise", type |-> "NetSuiteError", what |-> "Rate limited (429) after retries",
     status_code |-> 0, text |-> "", data |-> NoData]
\* NetSuiteError(f"HTTP {resp.status_code}: {resp.text}")
RaiseHttp(resp) ==
    [kind |-> "raise", type |-> "NetSuiteError", what |-> "HTTP",
     status_code |-> resp.status_code, text |-> resp.text, data |-> NoData]
\* the transport's own exception, as raised
Reraise(exc) ==
    [kind |-> "raise", type |-> exc, what |-> exc, status_code |-> 0, text |-> "",
     data |-> NoData]
\* NetSuiteError(str(last_exc) if last_exc else "Unknown NetSuite error")
RaiseAfterLoop(last_exc) ==
    [kind |-> "raise", type |-> "NetSuiteError",
     what |-> IF last_exc # "None" THEN last_exc ELSE "Unknown NetSuite error",
     status_code |-> 0, text |-> "", data |-> NoData]

RECURSIVE Pow2(_)
Pow2(n) == IF n = 0 THEN 1 ELSE 2 * Pow2(n - 1)

\* time.sleep(self.backoff_seconds * (2 ** attempt))
Backoff(backoff_seconds, attempt) == backoff_seconds * Pow2(attempt)

\* accepts_timeout: whether requests.request takes the timeout keyword; when it
\* does not, the call with timeout raises TypeError before the transport runs.
\* calls, history: the calls that reached the transport and what each did.
\* sleeps: each time.sleep made, with the attempt it followed.
\* op, args: the method of the client under way and its arguments; request:
\* the method and path it hands to _request; log: the calls of the client that
\* have ended, each with what it gave its caller.
PONumbers == {"PO-1", "PO-2"}
InvoicePayloads == {"invoice INV-1"}
RequestArguments == { <<"GET", "po/PO-1", "None">> }

InitRequest ==
    /\ LifecycleIdle
    /\ ocr = OcrIdle
    /\ auth = AuthIdle
    /\ match = MatchIdle
    /\ client \in [pc : {"ready"}, test_mode : BOOLEAN, accepts_timeout : BOOLEAN,
                   max_retries : 0..MaxRetriesBound, backoff_seconds : 0..MaxBackoff,
                   attempt : {0}, calls : {0}, sleeps : {<<>>}, history : {<<>>},
                   last_exc : {"None"}, result : {NoResult},
                   op : {""}, args : {<<>>}, request : {<<>>}, log : {<<>>}]

Ended(op, args, result) == [op |-> op, args |-> args, result |-> result]

\* A method of the client may be called when none is under way.
Callable ==
    /\ client.pc \in {"ready", "done"}
    /\ Len(client.log) < MaxCalls

\* A method answers in test mode without entering the loop.
Canned(op, args, result) ==
    [client EXCEPT !.pc = "done", !.op = op, !.args = args, !.request = <<>>,
                   !.attempt = 0, !.calls = 0, !.sleeps = <<>>, !.history = <<>>,
                   !.last_exc = "None", !.result = result,
                   !.log = Append(@, Ended(op, args, result))]

\* last_exc = None; for attempt in range(self.max_retries + 1):
EnterLoop(op, args, method, path) ==
    [client EXCEPT !.pc = "loop", !.op = op, !.args = args, !.request = <<method, path>>,
                   !.attempt = 0, !.calls = 0, !.sleeps = <<>>, !.history = <<>>,
                   !.last_exc = "None", !.result = NoResult]

Finish(result, o) ==
    client' = [client EXCEPT !.pc = "done", !.result = result,
                             !.calls = @ + 1, !.history = Append(@, o),
                             !.log = Append(@, Ended(client.op, client.args, result))]

\* The variant goes round again without moving to the next attempt.
SleepAndRetry_SameAttempt(o, last_exc) ==
    client' = [client EXCEPT !.calls = @ + 1,
                             !.history = Append(@, o), !.last_exc = last_exc,
                             !.sleeps = Append(@, [attempt |-> client.attempt,
                                                   seconds |-> Backoff(client.backoff_seconds,
                                                                       client.attempt)])]
SleepAndRetry(o, last_exc) ==
    client' = [client EXCEPT !.attempt = @ + 1, !.calls = @ + 1,
                             !.history = Append(@, o), !.last_exc = last_exc,
                             !.sleeps = Append(@, [attempt |-> client.attempt,
                                                   seconds |-> Backoff(client.backoff_seconds,
                                                                       client.attempt)])]

\* _request called directly.
\* if self.test_mode: return {"status": "dry-run", ...}
request_enter(method, path, json) ==
    /\ Callable
    /\ client' = IF client.test_mode
                 THEN Canned("_request", <<method, path, json>>, DryRun(method, path, json))
                 ELSE EnterLoop("_request", <<method, path, json>>, method, path)
    /\ UNCHANGED <<invoices, audit_log, nstatus, pf, outcome, auth, match, ocr>>

\* get_purchase_order: the canned order in test mode, else
\* self._request("GET", f"po/{po_number}").
get_purchase_order(po_number) ==
    /\ Callable
    /\ client' = IF client.test_mode
                 THEN Canned("get_purchase_order", <<po_number>>,
                             CannedPurchaseOrder(po_number))
                 ELSE EnterLoop("get_purchase_order", <<po_number>>, "GET",
                                "po/" \o po_number)
    /\ UNCHANGED <<invoices, audit_log, nstatus, pf, outcome, auth, match, ocr>>

\* post_invoice: the canned identifier in test mode, else
\* self._request("POST", "invoice", json=payload).
post_invoice(payload) ==
    /\ Callable
    /\ client' = IF client.test_mode
                 THEN Canned("post_invoice", <<payload>>, CannedInvoice(payload))
                 ELSE EnterLoop("post_invoice", <<payload>>, "POST", "invoice")
    /\ UNCHANGED <<invoices, audit_log, nstatus, pf, outcome, auth, match, ocr>>

\* One iteration with a transport that takes the timeout keyword: the try body
\* is the call alone, so a response of any status ends the iteration.
request_attempt(o) ==
    /\ client.pc = "loop"
    /\ client.attempt <= client.max_retries
    /\ client.accepts_timeout
    /\ IF o.kind = "response"
       THEN client' = [client EXCEPT !.attempt = @ + 1, !.calls = @ + 1,
                                     !.history = Append(@, o)]
       ELSE IF client.attempt = client.max_retries
       THEN Finish(Reraise(o.exc), o)
       ELSE SleepAndRetry(o, o.exc)
    /\ UNCHANGED <<invoices, audit_log, nstatus, pf, outcome, auth, match, ocr>>

\* One iteration with a transport that does not: the except TypeError branch
\* calls again without timeout and handles the response; what is raised in
\* that branch leaves _request.
request_attempt_fallback(o) ==
    /\ client.pc = "loop"
    /\ client.attempt <= client.max_retries
    /\ ~client.accepts_timeout
    /\ IF o.kind = "exception"
       THEN Finish(Reraise(o.exc), o)
       ELSE IF o.status_code = RateLimitStatus
       THEN IF client.attempt = client.max_retries
            THEN Finish(RaiseRateLimited, o)
            ELSE SleepAndRetry(o, client.last_exc)
       ELSE IF o.status_code >= ErrorStatus
       THEN Finish(RaiseHttp(o), o)
       ELSE Finish(Return(o), o)
    /\ UNCHANGED <<invoices, audit_log, nstatus, pf, outcome, auth, match, ocr>>

\* The statement after the loop.
request_after_loop ==
    /\ client.pc = "loop"
    /\ client.attempt > client.max_retries
    /\ LET result == RaiseAfterLoop(client.last_exc)
       IN client' = [client EXCEPT !.pc = "done", !.result = result,
                                   !.log = Append(@, Ended(client.op, client.args, result))]
    /\ UNCHANGED <<invoices, audit_log, nstatus, pf, outcome, auth, match, ocr>>

NextRequest ==
    \/ \E a \in RequestArguments : request_enter(a[1], a[2], a[3])
    \/ \E po_number \in PONumbers : get_purchase_order(po_number)
    \/ \E payload \in InvoicePayloads : post_invoice(payload)
    \/ \E o \in TransportOutcomes : request_attempt(o)
    \/ \E o \in TransportOutcomes : request_attempt_fallback(o)
    \/ request_after_loop

SpecRequest == InitRequest /\ [][NextRequest]_vars

\* A call of _request under way keeps running: the transport answers or raises
\* in the end (the timeout argument), time.sleep returns, and the statement
\* after the loop is executed. Nothing obliges a caller to call.
SpecRequestFair ==
    /\ SpecRequest
    /\ WF_vars(\E o \in TransportOutcomes : request_attempt(o))
    /\ WF_vars(\E o \in TransportOutcomes : request_attempt_fallback(o))
    /\ WF_vars(request_after_loop)

----------------------------------------------------------------------------
(* Specification of the matching routines, applied to drawn lists of lines *)

\* Quantities and prices in hundredths: an invoice line of 10 at 100.00, and
\* lines with a zero or negative quantity, a zero price, and 11 at 99.50.
InvoiceLineValues ==
    { Line(1000, 10000), Line(0, 10000), Line(1000, 0), Line(-500, 10000),
      Line(1100, 9950) }

\* Reference lines at, within, on and past the thresholds of those.
RefQuantities == { -500, 0, 990, 1000, 1010, 1011 }
RefPrices == { 0, 9800, 10200, 10201 }
POLineValues ==
    { Line(q, 10000) : q \in RefQuantities }
    \cup { Line(1000, p) : p \in RefPrices }
    \cup { Line(1011, 10201) }
    \cup { [quantity |-> 0], [price |-> 10000] }

SeqsUpTo(S, n) == UNION { [1..k -> S] : k \in 0..n }

Bool(b) == IF b THEN "True" ELSE "False"

InitMatch ==
    /\ LifecycleIdle
    /\ ocr = OcrIdle
    /\ auth = AuthIdle
    /\ client = ClientIdle
    /\ match \in [pc : {"drawn"}, routine : {"none"}, result : {"none"},
                  invoice_lines : SeqsUpTo(InvoiceLineValues, MaxLines),
                  po_lines : SeqsUpTo(POLineValues, MaxLines)]

Returned(routine, result) ==
    /\ match.pc = "drawn"
    /\ match' = [match EXCEPT !.pc = "done", !.routine = routine, !.result = result]
    /\ UNCHANGED <<invoices, audit_log, nstatus, pf, outcome, auth, client, ocr>>

_compare_lines_call ==
    Returned("_compare_lines", Bool(_compare_lines(match.invoice_lines, match.po_lines)))

compare_lines_call ==
    Returned("compare_lines", Bool(compare_lines(match.invoice_lines, match.po_lines)))

\* two_way_match(payload): payload["lines"] are the invoice's lines
two_way_match_call ==
    Returned("two_way_match", two_way_match(match.invoice_lines))

NextMatch ==
    \/ _compare_lines_call
    \/ compare_lines_call
    \/ two_way_match_call

SpecMatch == InitMatch /\ [][NextMatch]_vars

----------------------------------------------------------------------------
(* Specification of the choice of OCR provider, on a drawn environment *)

\* Texts are sequences of characters. An environment variable is unset or
\* set to a text, which may be empty.
Text_gpt == <<"g", "p", "t">>
Text_fallback == <<"f", "a", "l", "l", "b", "a", "c", "k">>
EnvUnset == [set |-> FALSE, value |-> <<>>]
EnvSet(value) == [set |-> TRUE, value |-> value]

ProviderNames ==
    { EnvUnset, EnvSet(Text_gpt), EnvSet(<<"G", "P", "T">>), EnvSet(<<"G", "p", "t">>),
      EnvSet(Text_fallback), EnvSet(<<"o", "c", "r">>), EnvSet(<<>>) }
ApiKeys == { EnvUnset, EnvSet(<<>>), EnvSet(<<"k", "1">>), EnvSet(<<"K", "2">>) }
Contents == {"pdf-1", "pdf-2"}

\* str.lower()
LowerChar(c) ==
    CASE c = "G" -> "g"
      [] c = "P" -> "p"
      [] c = "T" -> "t"
      [] c = "K" -> "k"
      [] OTHER -> c
Lower(text) == [i \in DOMAIN text |-> LowerChar(text[i])]

\* os.getenv(name, default); os.environ.get(name) gives None when unset
Getenv(var, default) == IF var.set THEN var.value ELSE default

\* not api_key: None or the empty text
Falsy(var) == ~var.set \/ var.value = <<>>

Provider(class, api_key) == [kind |-> "return", class |-> class, api_key |-> api_key]
RaiseRuntimeError ==
    [kind |-> "raise", class |-> "RuntimeError", api_key |-> <<>>]

get_provider(OCR_PROVIDER, OPENAI_API_KEY) ==
    LET provider_name == Lower(Getenv(OCR_PROVIDER, Text_fallback))
    IN IF provider_name = Text_gpt
       THEN IF Falsy(OPENAI_API_KEY)
            THEN RaiseRuntimeError
            ELSE Provider("GPTVisionProvider", OPENAI_API_KEY.value)
       ELSE Provider("FallbackOCRProvider", <<>>)

\* The invoice_number of the canned fields of each provider.
extract_fields(provider, content) ==
    IF provider.class = "GPTVisionProvider" THEN "INV-1001" ELSE "FALLBACK-0001"

InitProvider ==
    /\ LifecycleIdle
    /\ auth = AuthIdle
    /\ client = ClientIdle
    /\ match = MatchIdle
    /\ ocr \in [pc : {"drawn"}, OCR_PROVIDER : ProviderNames, OPENAI_API_KEY : ApiKeys,
                content : Contents, provider : {Provider("none", <<>>)},
                extracted : {"none"}]

\* provider = get_provider()
get_provider_call ==
    /\ ocr.pc = "drawn"
    /\ LET provider == get_provider(ocr.OCR_PROVIDER, ocr.OPENAI_API_KEY)
       IN ocr' = [ocr EXCEPT !.pc = IF provider.kind = "raise" THEN "raised" ELSE "returned",
                             !.provider = provider]
    /\ UNCHANGED <<invoices, audit_log, nstatus, pf, outcome, auth, client, match>>

\* extracted = provider.extract_fields(content)
extract_fields_call ==
    /\ ocr.pc = "returned"
    /\ ocr' = [ocr EXCEPT !.pc = "extracted",
                          !.extracted = extract_fields(ocr.provider, ocr.content)]
    /\ UNCHANGED <<invoices, audit_log, nstatus, pf, outcome, auth, client, match>>

NextProvider ==
    \/ get_provider_call
    \/ extract_fields_call

SpecProvider == InitProvider /\ [][NextProvider]_vars

----------------------------------------------------------------------------
(* Properties of the lifecycle, checked under Spec *)

Terminal == {"approved", "rejected"}

\* C1: once an invoice's persisted status is approved or rejected, no later
\* operation changes that status.
C1_TerminalStatusKept ==
    [][\A i \in 1..Len(invoices) :
          invoices[i].status \in Terminal => invoices'[i].status = invoices[i].status]_vars

\* The transition table, the status an invoice is created with standing for "new".
Created == {"new", "NEW", "pending"}
AllowedTransitions ==
    { <<c, m>> : c \in Created, m \in {"matched", "flagged"} }
    \cup { <<"matched", "awaiting_approval">>, <<"flagged", "awaiting_approval">>,
           <<"awaiting_approval", "approved">>, <<"awaiting_approval", "rejected">> }

\* C2: every unit of work that sets the status of an existing invoice, or logs
\* for it, takes it along a row of the transition table; in any other status
\* the trigger leaves the status and the audit log as they were.
C2_TransitionTable ==
    [][\A i \in 1..Len(invoices) :
          (invoices'[i].status # invoices[i].status \/ nstatus'[i] # nstatus[i])
              => <<invoices[i].status, invoices'[i].status>> \in AllowedTransitions]_vars

AuditEntriesOf(i) == { k \in 1..Len(audit_log) : audit_log[k].invoice_id = i }

\* C3: in every state an invoice has as many audit entries as it has had units
\* of work setting its status, its creation included.
C3_OneEntryPerTransition ==
    \A i \in 1..Len(invoices) : Cardinality(AuditEntriesOf(i)) = nstatus[i]

\* C4: a callback that fails verification is answered 401 and changes neither
\* an invoice's status nor the audit log.
C4_RejectedBeforeDatabase ==
    [][(outcome'.op = "slack_actions" /\ outcome'.verified = "False")
          => /\ UNCHANGED <<invoices, audit_log, nstatus>>
             /\ outcome'.result = "401"]_vars

\* C4, its case: an invoice waits for approval and the callback just handled
\* was answered 401.
C4_Witness ==
    /\ \E i \in 1..Len(invoices) : invoices[i].status = "awaiting_approval"
    /\ outcome = CallbackAnswer("401", "False", 0, "")

\* The step committed a po_check entry for invoice i: the match step ran on it.
LastEntry == audit_log[Len(audit_log)]
MatchCommitted(i) ==
    /\ Len(audit_log') = Len(audit_log) + 1
    /\ LastEntry'.event_type = "po_check"
    /\ LastEntry'.invoice_id = i

EveryIndexPasses(invoice_lines, po_lines) ==
    \A k \in 1..Len(invoice_lines) :
        k <= Len(po_lines) /\ LineOk(invoice_lines[k], po_lines[k])

\* C15: when the match step (po_lookup handler or process_file) commits, the
\* invoice's status is matched if the engine's answer on the invoice's lines and
\* the purchase order's was true and flagged if it was false, and the po_check
\* entry of that commit records the same boolean as within_tolerance.
C15_StatusFollowsMatch ==
    [][\A i \in 1..Len(invoices) :
          MatchCommitted(i) =>
              LET engine == EveryIndexPasses(invoices[i].line_items,
                                             LastEntry'.details.po_data)
              IN /\ LastEntry'.details.within_tolerance = engine
                 /\ invoices'[i].status = IF engine THEN "matched" ELSE "flagged"]_vars

\* C15, its case: the last commit was a match step on an invoice with lines
\* that the purchase order does not cover; the invoice is flagged.
C15_Witness ==
    /\ audit_log # <<>>
    /\ LastEntry.event_type = "po_check"
    /\ LastEntry.details.within_tolerance = FALSE
    /\ invoices[LastEntry.invoice_id].line_items # <<>>
    /\ invoices[LastEntry.invoice_id].status = "flagged"
    /\ outcome.result \in {"ok", "checked"}

ExtractedEntries(i) ==
    { k \in 1..Len(audit_log) :
        audit_log[k].invoice_id = i /\ audit_log[k].event_type = "extracted" }

\* C16: the lines the match step gives the engine for an invoice are the line
\* items extraction returned for it, in the same order: in process_file those
\* of its extracted document, in the Lambda pipeline those the ocr_extract
\* handler logged.
C16_ExtractedLinesCompared ==
    [][\A i \in 1..Len(invoices) :
          MatchCommitted(i) =>
              /\ (pf.pc = "match" /\ pf.invoice = i /\ outcome'.op = "process_file")
                    => invoices[i].line_items = pf.extracted.line_items
              /\ \A k \in ExtractedEntries(i) :
                    invoices[i].line_items = audit_log[k].details.line_items]_vars

\* C17: a verified approve or reject callback for an invoice that is already
\* approved or rejected changes neither its status nor the audit log, and is
\* not answered as a success.
C17_RedeliveryRejected ==
    [][(/\ outcome'.op = "slack_actions"
        /\ outcome'.verified = "True"
        /\ outcome'.invoice_id \in 1..Len(invoices)
        /\ invoices[outcome'.invoice_id].status \in Terminal)
          => /\ UNCHANGED <<invoices, audit_log>>
             /\ outcome'.result # "200"]_vars

\* C18: an operation whose audit entry could not be written commits nothing:
\* every persisted status, and the audit log, are as before it.
C18_AuditFailureKeepsStatus ==
    [][outcome'.result = "SQLAlchemyError" => UNCHANGED <<invoices, audit_log>>]_vars

\* C18, its case: a verified callback for an invoice awaiting approval whose
\* commit failed; the invoice still awaits approval.
C18_Witness ==
    /\ outcome.op = "slack_actions"
    /\ outcome.result = "SQLAlchemyError"
    /\ outcome.invoice_id \in 1..Len(invoices)
    /\ invoices[outcome.invoice_id].status = "awaiting_approval"

\* C19: every step keeps every committed audit entry as it is and where it is:
\* the log only grows at its end.
C19_AuditAppendOnly ==
    [][/\ Len(audit_log') >= Len(audit_log)
       /\ \A k \in 1..Len(audit_log) : audit_log'[k] = audit_log[k]]_vars

\* C19, its case: a second entry was committed for an invoice after its first.
C19_Witness ==
    /\ Len(audit_log) >= 2
    /\ audit_log[1].event_type = "extracted"
    /\ audit_log[2].invoice_id = audit_log[1].invoice_id
    /\ audit_log[2].event_type = "po_check"

\* C20: in every state the status of every invoice is one of new, matched,
\* flagged, awaiting_approval, approved, rejected, error.
C20_StatusEnumerated ==
    \A i \in 1..Len(invoices) :
        invoices[i].status \in { "new", "matched", "flagged", "awaiting_approval",
                                 "approved", "rejected", "error" }

\* The step handled a verified callback for invoice i with that action; the
\* step committed a slack_notification entry for invoice i.
CallbackFor(i, action_id) ==
    /\ outcome'.op = "slack_actions"
    /\ outcome'.verified = "True"
    /\ outcome'.invoice_id = i
    /\ outcome'.action_id = action_id

NotificationCommitted(i) ==
    audit_log' = Append(audit_log, [invoice_id |-> i, event_type |-> "slack_notification",
                                    details |-> [sent |-> TRUE]])

\* C25: on an invoice taken in order through extraction, a passing match, the
\* notification and an approve callback, each step that commits gives the
\* status matched, then awaiting_approval, then approved (the status at
\* creation standing for new); a verified reject callback for the invoice once
\* it is approved changes nothing and is not answered as a success.
C25_HappyPathThenReject ==
    [][\A i \in 1..Len(invoices) :
          /\ (/\ invoices[i].status \in Created
              /\ MatchCommitted(i)
              /\ LastEntry'.details.within_tolerance)
                 => invoices'[i].status = "matched"
          /\ (invoices[i].status = "matched" /\ NotificationCommitted(i))
                 => invoices'[i].status = "awaiting_approval"
          /\ (/\ invoices[i].status = "awaiting_approval"
              /\ CallbackFor(i, "approve_invoice")
              /\ outcome'.result = "200")
                 => invoices'[i].status = "approved"
          /\ (invoices[i].status = "approved" /\ CallbackFor(i, "reject_invoice"))
                 => /\ UNCHANGED <<invoices, audit_log>>
                    /\ outcome'.result # "200"]_vars

\* C28: an ingestion whose extraction result lacks a required field ends in an
\* error and commits nothing: the invoices and the audit log are as before.
C28_LackingFieldPersistsNothing ==
    [][(/\ outcome'.op \in {"ocr_extract", "process_file"}
        /\ outcome'.lacking \in RequiredFields)
          => /\ UNCHANGED <<invoices, audit_log, nstatus>>
             /\ outcome'.result \in {"KeyError", "IntegrityError"}]_vars

\* C29: no two invoices ever share an invoice number, and an ingestion that
\* fails on a number already taken leaves the invoices, their statuses and the
\* audit log as they were.
C29_InvoiceNumberUnique ==
    [][/\ \A i, j \in 1..Len(invoices') :
              i # j => invoices'[i].invoice_number # invoices'[j].invoice_number
       /\ (/\ outcome'.op \in {"ocr_extract", "process_file"}
           /\ outcome'.result = "IntegrityError")
              => UNCHANGED <<invoices, audit_log, nstatus>>]_vars

\* C29, its case: a complete document carrying the number of the one invoice
\* there is was refused, by either way of ingestion, after that invoice had
\* been matched.
C29_Witness ==
    /\ Len(invoices) = 1
    /\ invoices[1].status = "matched"
    /\ outcome.op \in {"ocr_extract", "process_file"}
    /\ outcome.result = "IntegrityError"
    /\ outcome.lacking = "none"

\* The step was a notification whose send failed or that found no webhook.
NotificationFailed ==
    \/ outcome'.result = "HTTPError"
    \/ outcome' = Answer("slack_notification", "RuntimeError")
    \/ outcome' = Answer("process_file", "no webhook")

\* C30: a status becomes awaiting_approval only in a step whose notification
\* was sent and logged; a step whose send failed, or that found no webhook,
\* leaves every status and the audit log as they were.
C30_AwaitingOnlyAfterSent ==
    [][/\ \A i \in 1..Len(invoices') :
              (/\ invoices'[i].status = "awaiting_approval"
               /\ ~(i <= Len(invoices) /\ invoices[i].status = "awaiting_approval"))
                  => /\ NotificationCommitted(i)
                     /\ outcome' \in { Answer("slack_notification", "ok"),
                                       Answer("process_file", "ok") }
       /\ NotificationFailed => UNCHANGED <<invoices, audit_log, nstatus>>]_vars

\* C30, its case: the send for the one invoice, a matched one, failed, and the
\* invoice is still matched with no slack_notification entry.
C30_Witness ==
    /\ Len(invoices) = 1
    /\ invoices[1].status = "matched"
    /\ outcome.result = "HTTPError"
    /\ \A k \in 1..Len(audit_log) : audit_log[k].event_type # "slack_notification"

\* The step made an external call for invoice i that failed for good; the step
\* made one that returned, and its unit of work was committed.
ExternalCallFailed(i) ==
    /\ outcome'.result = "NetSuiteError"
    /\ \/ outcome'.op \in {"po_lookup", "invoice_post"} /\ outcome'.invoice_id = i
       \/ outcome'.op = "process_file" /\ pf.pc = "match" /\ pf.invoice = i

ExternalCallReturned(i) ==
    \/ outcome' = EventAnswer("po_lookup", "ok", i, "")
    \/ outcome' = EventAnswer("invoice_post", "ok", i, "approve")
    \/ outcome' = Answer("process_file", "checked") /\ pf.pc = "match" /\ pf.invoice = i

\* C31: when an external call made for an invoice fails for good, the invoice,
\* unless approved or rejected, has the status error after the step, and an
\* invoice in the status error keeps it.
C31_FailureMovesToError ==
    [][\A i \in 1..Len(invoices) :
          /\ (ExternalCallFailed(i) /\ invoices[i].status \notin Terminal)
                 => invoices'[i].status = "error"
          /\ invoices[i].status = "error" => invoices'[i].status = "error"]_vars

\* C32: a step that made an external call for an invoice, failed or returned,
\* appends exactly one audit entry, for that invoice.
C32_OneEntryPerExternalCall ==
    [][\A i \in 1..Len(invoices) :
          (ExternalCallFailed(i) \/ ExternalCallReturned(i))
              => /\ Len(audit_log') = Len(audit_log) + 1
                 /\ LastEntry'.invoice_id = i]_vars

\* C34: when a verified callback for an invoice was committed after
\* process_file sent the invoice's notification and before process_file's
\* closing commit, that commit leaves the status the callback set: approved
\* or rejected, not awaiting_approval.
C34_CallbackDecisionKept ==
    [][\A i \in 1..Len(invoices) :
          (/\ pf.pc = "sent" /\ pf.invoice = i
           /\ outcome.op = "slack_actions" /\ outcome.verified = "True"
           /\ outcome.invoice_id = i /\ outcome.result = "200"
           /\ outcome'.op = "process_file")
              => /\ invoices[i].status \in Terminal
                 /\ invoices'[i].status = invoices[i].status]_vars

\* C35: a verified callback changes a status to approved only under the action
\* approve_invoice and to rejected only under reject_invoice, and under any
\* other action it changes no status and writes no audit entry.
C35_OnlyNamedActions ==
    [][(outcome'.op = "slack_actions" /\ outcome'.verified = "True")
          => /\ \A i \in 1..Len(invoices) :
                   invoices'[i].status # invoices[i].status
                       => \/ /\ invoices'[i].status = "approved"
                             /\ outcome'.action_id = "approve_invoice"
                          \/ /\ invoices'[i].status = "rejected"
                             /\ outcome'.action_id = "reject_invoice"
             /\ outcome'.action_id \notin {"approve_invoice", "reject_invoice"}
                   => UNCHANGED <<invoices, audit_log>>]_vars

\* C36: when post_invoice raises in the invoice_post handler the decision was
\* approve, the error is what the caller gets, and the invoices and the audit
\* log are unchanged; a status set to approved by the handler comes with the
\* entry that carries what post_invoice returned.
C36_ApprovedAfterPosting ==
    [][outcome'.op = "invoice_post"
          => /\ outcome'.result = "NetSuiteError"
                   => /\ outcome'.action_id = "approve"
                      /\ UNCHANGED <<invoices, audit_log, nstatus>>
             /\ \A i \in 1..Len(invoices) :
                   (invoices'[i].status = "approved" /\ invoices[i].status # "approved")
                       => /\ outcome' = EventAnswer("invoice_post", "ok", i, "approve")
                          /\ LastEntry'.details.netsuite_response = "NS-INV-42"]_vars

\* C36, its case: post_invoice raised for the one invoice, which awaits
\* approval still.
C36_Witness ==
    /\ Len(invoices) = 1
    /\ invoices[1].status = "awaiting_approval"
    /\ outcome = EventAnswer("invoice_post", "NetSuiteError", 1, "approve")

\* C38: what verification gives the endpoint is always true or false, never
\* an exception, and a callback not verified true is answered 401.
C38_MalformedIsUnauthorized ==
    [][(outcome'.op = "slack_actions" /\ outcome'.verified # "n/a")
          => /\ outcome'.verified \in {"True", "False"}
             /\ outcome'.verified # "True" => outcome'.result = "401"]_vars

----------------------------------------------------------------------------
(* Properties of the authenticator, checked under SpecVerify *)

\* C5: whenever the timestamp is more than 300 seconds from now, in the past or
\* in the future, verification gives false, whatever the signature.
C5_StaleRejected ==
    (/\ auth.pc = "done"
     /\ auth.timestamp.kind = "num"
     /\ Abs(auth.now - auth.timestamp.val) > FreshnessWindow)
        => auth.result = "False"

\* C5, its case: a timestamp more than 300 seconds ahead, with the signature
\* that is right for it, was refused.
C5_Witness ==
    /\ auth.pc = "done"
    /\ auth.timestamp.kind = "num"
    /\ auth.timestamp.val - auth.now > FreshnessWindow
    /\ auth.signature = Sign(auth.signing_secret, auth.timestamp, auth.body)
    /\ auth.body.utf8
    /\ auth.result = "False"

\* C21: verification gives true exactly when the timestamp and the signature
\* are both present, the timestamp is a number at most 300 seconds from now,
\* and the signature is "v0=" followed by the HMAC of "v0:", the timestamp and
\* the body under the secret; in every other case it gives false.
C21_TrueExactlyWhenValid ==
    auth.pc = "done" =>
        auth.result =
            Bool(/\ auth.timestamp.kind \notin {"none", "empty"}
                 /\ auth.signature.kind \notin {"none", "empty"}
                 /\ auth.timestamp.kind = "num"
                 /\ Abs(auth.now - auth.timestamp.val) <= FreshnessWindow
                 /\ auth.signature.prefix = "v0="
                 /\ auth.signature.mac
                        = <<auth.signing_secret, <<"v0", auth.timestamp, auth.body>>>>)

\* Two bodies that differ in the one digit of the button value.
OneByteApart(b, c) ==
    /\ b # c
    /\ b.value.kind = "int"
    /\ c.value.kind = "int"
    /\ c = [b EXCEPT !.value = c.value]

\* C26: a signature that verifies for a body verifies for no other body under
\* the same timestamp and secret, a body one byte apart included.
C26_OtherBodyRefused ==
    (auth.pc = "done" /\ auth.result = "True") =>
        \A c \in VerifyBodies \ {auth.body} :
            _verify_slack_request(auth.timestamp, auth.signature, c,
                                  auth.signing_secret, auth.now) # "True"

\* C26, its case: a signature verified for a body, and a body one byte apart
\* from it exists among the bodies tried.
C26_Witness ==
    /\ auth.pc = "done"
    /\ auth.result = "True"
    /\ \E c \in VerifyBodies : OneByteApart(auth.body, c)

\* A verification gave true.
Accepted(call) == call.result = "True"

\* C27: two verifications of the same timestamp, body, signature and secret
\* give the same result.
C27_SameResultTwice ==
    \A j, k \in 1..Len(auth.results) :
        Accepted(auth.results[j]) = Accepted(auth.results[k])

\* The clock reading is within the freshness window of the timestamp.
InWindow(now) ==
    auth.timestamp.kind = "num" => Abs(now - auth.timestamp.val) <= FreshnessWindow

\* C27, amended: two verifications of the same timestamp, body, signature and
\* secret give the same result whenever the clock reads within the freshness
\* window of the timestamp at both or at neither; nothing but the clock can
\* change the second result.
C27_SameResultSameWindow ==
    \A j, k \in 1..Len(auth.results) :
        InWindow(auth.results[j].now) = InWindow(auth.results[k].now)
            => Accepted(auth.results[j]) = Accepted(auth.results[k])

\* C27, its case: a request verified twice, a second apart, was accepted both
\* times.
C27_Witness ==
    /\ Len(auth.results) = 2
    /\ auth.results[1].now # auth.results[2].now
    /\ auth.results[1].result = "True"
    /\ auth.results[2].result = "True"

----------------------------------------------------------------------------
(* Properties of _request, checked under SpecRequest *)

IsRateLimit(o) == o.kind = "response" /\ o.status_code = RateLimitStatus
IsSuccess(o) == o.kind = "response" /\ o.status_code < ErrorStatus
IsOtherError(o) ==
    o.kind = "response" /\ o.status_code >= ErrorStatus /\ o.status_code # RateLimitStatus
Live == client.pc # "idle" /\ ~client.test_mode

Done == client.pc = "done"
Calls == 1..Len(client.history)
SleptAfter(a) ==
    \E j \in 1..Len(client.sleeps) :
        client.sleeps[j] = [attempt |-> a,
                            seconds |-> Backoff(client.backoff_seconds, a)]

\* C6: in live mode with max_retries = N >= 1, when the transport answers k
\* rate-limit responses (1 <= k <= N) and then a success, _request ends having
\* made exactly k+1 transport calls and returns the success payload.
C6_RetryThenSuccess ==
    (Live /\ Done) =>
      \A k \in 1..client.max_retries :
        (/\ Len(client.history) >= k + 1
         /\ \A i \in 1..k : IsRateLimit(client.history[i])
         /\ IsSuccess(client.history[k + 1]))
            => /\ client.calls = k + 1
               /\ client.result = Return(client.history[k + 1])

\* C7: in live mode, when every transport call is answered with a rate-limit
\* response, _request raises its rate-limit error after exactly max_retries+1
\* calls, not earlier, and calls no further.
C7_RateLimitExhausted ==
    (Live /\ Done /\ client.history # <<>>
          /\ \A i \in Calls : IsRateLimit(client.history[i]))
        => /\ client.calls = client.max_retries + 1
           /\ client.result = RaiseRateLimited

\* C8: a response with an error status other than rate-limit makes _request
\* raise on that attempt, the error carrying the status and the body: it is the
\* last transport call and no sleep follows it.
C8_OtherErrorRaisesAtOnce ==
    (Live /\ Done) =>
      \A i \in Calls :
        IsOtherError(client.history[i])
            => /\ i = Len(client.history)
               /\ client.result = RaiseHttp(client.history[i])
               /\ \A j \in 1..Len(client.sleeps) : client.sleeps[j].attempt < i - 1

\* C9: an exception raised by a transport call is retried after the exponential
\* wait while attempts remain (call i is attempt i-1), and re-raised as it is
\* when it is raised by the last attempt.
C9_TransportErrorRetried ==
    (Live /\ Done) =>
      \A i \in Calls :
        client.history[i].kind = "exception"
            => IF i = client.max_retries + 1
               THEN client.result = Reraise(client.history[i].exc)
               ELSE i < Len(client.history) /\ SleptAfter(i - 1)

\* C10: a success response makes _request return on that attempt: it is the
\* last transport call, and the result is the parsed body, or the raw text
\* wrapped when the body does not parse; whether or not the transport takes the
\* timeout keyword.
C10_SuccessReturns ==
    (Live /\ Done) =>
      \A i \in Calls :
        IsSuccess(client.history[i])
            => /\ i = Len(client.history)
               /\ client.result = Return(client.history[i])

\* C22: the error raised when the attempts are used up on rate-limit
\* responses has a type other than the type of the error raised for any other
\* error-status response, so that a caller can tell the two apart by type.
C22_RateLimitTypeDistinct ==
    (/\ Live /\ Done
     /\ client.history # <<>>
     /\ \A i \in Calls : IsRateLimit(client.history[i])
     /\ client.result.kind = "raise")
        => \A o \in TransportOutcomes :
              IsOtherError(o) => client.result.type # RaiseHttp(o).type

\* C23: every transport call after the first is preceded by one sleep of
\* backoff_seconds * 2^a, a being the attempt before it (counted from 0); no
\* sleep precedes the first attempt or follows the last, so the sleeps of one
\* call are at most max_retries and each is twice the one before.
C23_BackoffSchedule ==
    Live =>
        /\ Len(client.sleeps) <= client.max_retries
        /\ \A a \in 0..(client.calls - 2) : SleptAfter(a)
        /\ \A j \in 1..Len(client.sleeps) :
              /\ client.sleeps[j].attempt = j - 1
              /\ client.sleeps[j].seconds = client.backoff_seconds * Pow2(j - 1)
              /\ j > 1 => client.sleeps[j].seconds = 2 * client.sleeps[j - 1].seconds
        /\ Done => \A j \in 1..Len(client.sleeps) : client.sleeps[j].attempt < client.calls - 1

\* C24: the mode of a client never changes, and a client in test mode makes no
\* transport call and no sleep in any sequence of _request, get_purchase_order
\* and post_invoice calls, and gives the same result whenever the method and
\* the arguments are the same.
C24_TestModeCanned ==
    [][/\ client'.test_mode = client.test_mode
       /\ client'.test_mode =>
              /\ client'.pc # "loop"
              /\ client'.calls = 0
              /\ client'.history = <<>>
              /\ client'.sleeps = <<>>
              /\ \A j, k \in 1..Len(client'.log) :
                    (/\ client'.log[j].op = client'.log[k].op
                     /\ client'.log[j].args = client'.log[k].args)
                        => client'.log[j].result = client'.log[k].result]_vars

\* C24, its case: a client in test mode was asked for the same purchase order
\* twice.
C24_Witness ==
    /\ client.pc = "done"
    /\ client.test_mode
    /\ Len(client.log) = 2
    /\ client.log[1].op = "get_purchase_order"
    /\ client.log[2].op = "get_purchase_order"
    /\ client.log[1].args = client.log[2].args

----------------------------------------------------------------------------
(* Properties of the matching routines, checked under SpecMatch *)

EngineRoutines == { "_compare_lines", "compare_lines" }
Compared == match.pc = "done" /\ match.routine \in EngineRoutines
OneLineCompared ==
    Compared /\ Len(match.invoice_lines) = 1 /\ Len(match.po_lines) >= 1

\* C11: the matching engine returns true exactly when every index of the
\* invoice lines has a reference line and that pair passes the tolerance
\* policy; so a missing reference line gives false, reference lines past the
\* invoice's length do not count, and an invoice with no lines matches.
C11_MatchIffEveryIndex ==
    Compared =>
        match.result = Bool(\A i \in 1..Len(match.invoice_lines) :
                               /\ i <= Len(match.po_lines)
                               /\ LineOk(match.invoice_lines[i], match.po_lines[i]))

\* C11, its case: two invoice lines against one reference line that passes
\* for the first; the engine returned false.
C11_Witness ==
    /\ Compared
    /\ Len(match.invoice_lines) = 2
    /\ Len(match.po_lines) = 1
    /\ LineOk(match.invoice_lines[1], match.po_lines[1])
    /\ match.result = "False"

\* C12: for every invoice quantity q_i and reference quantity q_r the quantity
\* check passes exactly when |q_i - q_r| <= max(0.01 * q_i, 0); seen on one
\* compared line whose price check passes.
C12_QuantityCheck ==
    (OneLineCompared /\ price_ok(match.invoice_lines[1], match.po_lines[1]))
        => match.result =
               Bool(100 * Abs(match.invoice_lines[1].quantity
                                  - PoGet(match.po_lines[1], "quantity"))
                        <= Max(QTY_TOLERANCE * match.invoice_lines[1].quantity, 0))

\* C13: for every invoice price p_i and reference price p_r the price check
\* passes exactly when |p_i - p_r| <= 0.02 * p_i, for p_i = 0 only when
\* p_r = 0; and a line passes exactly when its quantity check and its price
\* check both pass.
C13_PriceCheck ==
    OneLineCompared =>
        LET p_i == match.invoice_lines[1].price
            p_r == PoGet(match.po_lines[1], "price")
        IN match.result =
               Bool(/\ qty_ok(match.invoice_lines[1], match.po_lines[1])
                    /\ IF p_i = 0 THEN p_r = 0
                       ELSE 100 * Abs(p_i - p_r) <= PRICE_TOLERANCE * p_i)

\* C13, its case: a line whose quantity agrees and whose reference price is
\* exactly 2 % above the invoice's passed.
C13_Witness ==
    /\ OneLineCompared
    /\ match.invoice_lines[1] = Line(1000, 10000)
    /\ match.po_lines[1] = Line(1000, 10200)
    /\ match.result = "True"

\* C14: every matching routine takes both thresholds from the invoice line:
\* what it returns for one invoice line is what the invoice line's own
\* thresholds give against the reference line it is compared with.
C14_InvoiceBasedThresholds ==
    (match.pc = "done" /\ Len(match.invoice_lines) = 1) =>
        LET reference == IF match.routine = "two_way_match" THEN StubPO
                         ELSE match.po_lines
        IN Len(reference) >= 1
               => match.result = Bool(LineOk(match.invoice_lines[1], reference[1]))

\* C39: on every pair of an invoice-line list and a reference-line list,
\* whichever of cli.compare_lines and po_lookup._compare_lines was called
\* returned what the other returns on that pair: on a reference list shorter
\* than the invoice, and on a reference line without its quantity or its price.
C39_SameAnswerBothRoutines ==
    Compared =>
        /\ match.result = Bool(compare_lines(match.invoice_lines, match.po_lines))
        /\ match.result = Bool(_compare_lines(match.invoice_lines, match.po_lines))

\* C39, its case: cli.compare_lines was called on an invoice of two lines whose
\* second reference line lacks its price, and the invoice's price there is zero.
C39_Witness ==
    /\ match.pc = "done"
    /\ match.routine = "compare_lines"
    /\ Len(match.invoice_lines) = 2
    /\ Len(match.po_lines) = 2
    /\ "price" \notin DOMAIN match.po_lines[2]
    /\ match.invoice_lines[2].price = 0

\* C37: in live mode a call of _request never makes more than max_retries + 1
\* attempts, has made at least one when it has ended, and, once in its loop,
\* ends, whatever the transport does at each attempt.
C37_RequestTerminates ==
    /\ [](Live => /\ client.calls <= client.max_retries + 1
                  /\ Done => client.calls >= 1)
    /\ (Live /\ client.pc = "loop") ~> Done

\* C37, its case: a call that ended after three attempts, the most that
\* max_retries = 2 allows, the first two rate-limited or failed.
C37_Witness ==
    /\ Live /\ Done
    /\ client.max_retries = 2
    /\ client.calls = 3
    /\ Len(client.sleeps) = 2

----------------------------------------------------------------------------
(* Properties of the choice of OCR provider, checked under SpecProvider *)

\* OCR_PROVIDER is gpt, in whatever case it is written.
NamesGpt(var) == var.set /\ Lower(var.value) = Text_gpt

\* C33: once get_provider has been called it has returned a provider, not
\* raised: the GPT provider when OCR_PROVIDER is gpt and OPENAI_API_KEY is
\* set to a key, and the fallback provider in every other case.
C33_ProviderChoice ==
    ocr.pc \in {"returned", "raised", "extracted"}
        => /\ ocr.provider.kind = "return"
           /\ ocr.provider.class =
                  IF NamesGpt(ocr.OCR_PROVIDER) /\ ~Falsy(ocr.OPENAI_API_KEY)
                  THEN "GPTVisionProvider"
                  ELSE "FallbackOCRProvider"

====
